---- MODULE Spec2Model ----
(***************************************************************************)
(* A model of scanner_info.py: get_scanner_info() and the __main__ block.  *)
(*                                                                         *)
(* The WIA service is the environment.  What it enumerates (how many       *)
(* devices, which properties, with which values) and which of its calls    *)
(* raise are drawn with \E at the step that makes the call.  Every access  *)
(* to a COM object (Dispatch, DeviceInfos, Count, [0], Connect, the        *)
(* collections, and every attribute of a property, Name included) is a     *)
(* call that either returns or raises an Exception.                        *)
(*                                                                         *)
(* Python values: a dict is a sequence of <<key, value>> pairs in          *)
(* insertion order; a feature descriptor (a dict whose key order is never  *)
(* observed separately) is a record; a str built by an f-string is         *)
(* [str |-> <<parts>>]; None is [none |-> TRUE].  The leading pictographs  *)
(* of the printed texts are left out of the strings.                       *)
(***************************************************************************)
EXTENDS Integers, Sequences, FiniteSets, TLC

\* ------------------------------------------------------------- bounds
MaxDevices == 2
MaxInfoProps == 1
MaxItems == 2
MaxItemProps == 2

\* ------------------------------------------------- program constants
WIA_PROP_RANGE == 1
WIA_PROP_LIST == 2

\* ------------------------------------------- what the service reports
\* DeviceInfos.Count: no device, one, or several.
DeviceCounts == {0, 1, MaxDevices}

InfoNames == {"Name", "Manufacturer"}

InfoValue(name) == IF name = "Name" THEN "HP Scanner" ELSE "HP"

ItemNames == {"Resolution", "Mode"}

SubTypes == 0..2

ItemValues == {300}

\* A property object of an item, as the service holds it.
ItemProp(name, value, subType) ==
    [Name |-> name,
     PropertyID |-> IF name = "Resolution" THEN 6147 ELSE 6146,
     Value |-> value,
     Type |-> IF name = "Resolution" THEN 5 ELSE 4,
     SubType |-> subType,
     SubTypeMin |-> 100,
     SubTypeMax |-> 1200,
     SubTypeStep |-> 100,
     SubTypeValues |-> <<300, 600>>]

ItemProps == {ItemProp(n, v, s) : n \in ItemNames, v \in ItemValues, s \in SubTypes}

\* ------------------------------------------------------ Python values
NoneVal == [none |-> TRUE]

Unset == [unset |-> TRUE]

PyStr(parts) == [str |-> parts]

IsStr(v) == DOMAIN v = {"str"}

IsNone(v) == DOMAIN v = {"none"}

\* list(x): a new list holding the elements of x in iteration order.
PyList(coll) == [i \in 1..Len(coll) |-> coll[i]]

Keys(d) == {d[i][1] : i \in DOMAIN d}

HasKey(d, k) == \E i \in DOMAIN d : d[i][1] = k

Get(d, k) == d[CHOOSE i \in DOMAIN d : d[i][1] = k][2]

\* A dict that appends on every assignment instead of replacing the key's value.
DictSetAppend(d, k, v) == Append(d, <<k, v>>)

\* d[k] = v
DictSet(d, k, v) ==
    IF HasKey(d, k)
    THEN [i \in DOMAIN d |-> IF d[i][1] = k THEN <<k, v>> ELSE d[i]]
    ELSE Append(d, <<k, v>>)

\* A truth test that looks into the two mappings instead of at the dict.
TruthyIfData(v) ==
    /\ ~IsNone(v)
    /\ (Len(v.ScannerDetails) > 0 \/ Len(v.SupportedFeatures) > 0)

\* bool(x) for the values `info` can hold: None is false, a dict is true
\* unless it has no keys.
Truthy(v) == ~IsNone(v) /\ Cardinality(DOMAIN v) > 0

\* ----------------------------------------------------- service calls
\* One attribute read: which attribute, at which source line.
Read(op, line) == [op |-> op, line |-> line]

NoFail == Read("", 0)

\* The reads line 47 makes, in evaluation order: the right-hand side first,
\* then the subscript of the target.
InfoReads == <<Read("Value", 47), Read("Name", 47)>>

\* The reads lines 56-70 make for property p when none raises.
FeatureReads(p) ==
    <<Read("PropertyID", 57), Read("Value", 58), Read("Type", 59),
      Read("SubType", 60), Read("SubType", 63)>>
    \o (IF p.SubType = WIA_PROP_RANGE
        THEN <<Read("SubTypeMin", 64), Read("SubTypeMax", 65), Read("SubTypeStep", 66)>>
        ELSE <<Read("SubType", 67)>>
             \o (IF p.SubType = WIA_PROP_LIST
                 THEN <<Read("SubTypeValues", 68)>>
                 ELSE <<>>))
    \o <<Read("Name", 70)>>

\* What `last` keeps of a failed read: nothing, the Name read (the dict key),
\* or one of the reads that build the value.
Category(read) ==
    IF read = NoFail THEN "" ELSE IF read.op = "Name" THEN "Name" ELSE "value"

\* The read that raises (NoFail when failIdx = 0).
FailedRead(reads, failIdx) == IF failIdx = 0 THEN NoFail ELSE reads[failIdx]

\* The reads made: up to the one that raises, then the handler's own reads.
Invoked(reads, failIdx, handler) ==
    IF failIdx = 0 THEN reads ELSE SubSeq(reads, 1, failIdx) \o handler

\* The attributes that were read again after a read of them had raised.
RetriedOps(reads, failIdx, handler) ==
    LET inv == Invoked(reads, failIdx, handler)
    IN  IF failIdx = 0 THEN {}
        ELSE {inv[j].op : j \in {j \in failIdx + 1..Len(inv) : inv[j].op = inv[failIdx].op}}

\* ------------------------------------------------- get_scanner_info
\* The descriptor with the constraint metadata of both sub-types attached.
BuildFeatureBoth(p) ==
    [ID |-> p.PropertyID, Value |-> p.Value, Type |-> p.Type, SubType |-> p.SubType]
    @@ (IF p.SubType = WIA_PROP_RANGE \/ p.SubType = WIA_PROP_LIST
        THEN [Min |-> p.SubTypeMin, Max |-> p.SubTypeMax, Step |-> p.SubTypeStep,
              Values |-> PyList(p.SubTypeValues)]
        ELSE <<>>)

\* The descriptor with the wrong field copied into Value.
BuildFeatureSwapped(p) ==
    [ID |-> p.PropertyID, Value |-> p.SubTypeMin, Type |-> p.Type, SubType |-> p.SubType]
    @@ (IF p.SubType = WIA_PROP_RANGE
        THEN [Min |-> p.SubTypeMin, Max |-> p.SubTypeMax, Step |-> p.SubTypeStep]
        ELSE IF p.SubType = WIA_PROP_LIST
             THEN [Values |-> PyList(p.SubTypeValues)]
             ELSE <<>>)

\* Lines 56-68: the descriptor of p when every read succeeds.
BuildFeature(p) ==
    [ID |-> p.PropertyID, Value |-> p.Value, Type |-> p.Type, SubType |-> p.SubType]
    @@ (IF p.SubType = WIA_PROP_RANGE
        THEN [Min |-> p.SubTypeMin, Max |-> p.SubTypeMax, Step |-> p.SubTypeStep]
        ELSE IF p.SubType = WIA_PROP_LIST
             THEN [Values |-> PyList(p.SubTypeValues)]
             ELSE <<>>)

\* str(e) of the exception a property read raises.
Message(read) == "COM error"

\* Line 72: f"Error reading: {e}"
ErrorEntry(e) == PyStr(<<"Error reading: ", e>>)

\* Line 49
NotAvailable == "Not Available"

\* Line 40 with the last device selected instead of the first.
LastIndex(n) == n - 1

\* Line 40: DeviceInfos[0]
FirstIndex(n) == 0

\* Line 35 with the test never true.
NoDeviceNever(n) == n < 0

\* Line 35: DeviceInfos.Count == 0
NoDevice(n) == n = 0

\* Lines 80-83 returning what was collected so far.
ExceptResultPartial(sd, sf) == [ScannerDetails |-> sd, SupportedFeatures |-> sf]

\* Line 83: return None
ExceptResult(sd, sf) == NoneVal

\* Lines 75-78
SuccessResult(sd, sf) == [ScannerDetails |-> sd, SupportedFeatures |-> sf]

LogEntry(logger, level, msg) == [logger |-> logger, level |-> level, msg |-> msg]


\* Lines 95-96 and 99-100: one "   k: v" line per entry, in dict order.
Lines(d) == [i \in 1..Len(d) |-> <<"   ", d[i][1], ": ", d[i][2]>>]

DetailsHeader == <<"Scanner Details:">>

FeaturesHeader == <<"Supported Features:">>

\* Line 80, except Exception: every error a service call raises is an Exception.
Catches(e) == TRUE

\* What d holds under k: nothing, an error string, or a descriptor.
EntryKind(d, k) ==
    IF ~HasKey(d, k) THEN "absent"
    ELSE IF IsStr(Get(d, k)) THEN "str" ELSE "dict"

VARIABLES
    pc,                  \* position in the program
    count,               \* DeviceInfos.Count as read at line 35 (-1: not read)
    devIdx,              \* index of device_info in DeviceInfos (-1: none)
    scanner_details,     \* line 44
    supported_features,  \* line 52
    result,              \* what get_scanner_info returned (Unset before)
    exc,                 \* the call whose exception reached the outer try ("" none)
    infoIdx,             \* device-info properties enumerated so far
    itemIdx,             \* items enumerated so far
    propIdx,             \* properties of the current item enumerated so far
    log,                 \* the logger's lines
    out,                 \* the lines printed
    \* history, never read by the program
    nInspect,            \* calls of get_scanner_info
    calls,               \* how often Dispatch and Connect were invoked
    touched,             \* indexes of the devices connected to or read from
    anyRaise,            \* whether any service call has raised
    last,                \* the property handled by the latest loop iteration
    infoSeen,            \* names of the device-info properties enumerated
    occLast,             \* per name: the item property enumerated last and whether its
                         \* reads returned
    overwrote            \* the changes of kind (dict to str, str to dict) that
                         \* assignments to supported_features have made (the three
                         \* histories are cleared when the enumeration is abandoned)

vars == <<pc, count, devIdx, scanner_details, supported_features, result, exc,
          infoIdx, itemIdx, propIdx, log, out, nInspect, calls, touched,
          anyRaise, last, infoSeen, occLast, overwrote>>

progVars == <<count, devIdx, scanner_details, supported_features, result,
              infoIdx, itemIdx, propIdx>>

histVars == <<nInspect, calls, touched, last, infoSeen, occLast, overwrote>>

NoLast == [kind |-> "none", name |-> "", fail |-> "", handlerOk |-> TRUE,
           retried |-> {}]

NoProp == [Name |-> ""]

NoOcc == [seen |-> FALSE, ok |-> FALSE, p |-> NoProp]

Init ==
    /\ pc = "main"
    /\ count = -1
    /\ devIdx = -1
    /\ scanner_details = <<>>
    /\ supported_features = <<>>
    /\ result = Unset
    /\ exc = ""
    /\ infoIdx = 0
    /\ itemIdx = 0
    /\ propIdx = 0
    /\ log = <<>>
    /\ out = <<>>
    /\ nInspect = 0
    /\ calls = [Dispatch |-> 0, Connect |-> 0]
    /\ touched = {}
    /\ anyRaise = FALSE
    /\ last = NoLast
    /\ infoSeen = {}
    /\ occLast = [n \in ItemNames |-> NoOcc]
    /\ overwrote = {}

\* An exception leaves the try body: control goes to line 80.
Raise(op) ==
    /\ pc' = "except"
    /\ exc' = op
    /\ anyRaise' = TRUE

\* Line 90
MainStart ==
    /\ pc = "main"
    /\ log' = Append(log, LogEntry("PyAutoScan.Main", "info",
                                   <<"Starting PyAutoScan Scanner Information Utility">>))
    /\ pc' = "call"
    /\ UNCHANGED <<progVars, histVars, exc, out, anyRaise>>

\* Line 91: the call
CallInspect ==
    /\ pc = "call"
    /\ nInspect' = nInspect + 1
    /\ pc' = "dispatch"
    /\ UNCHANGED <<progVars, exc, log, out, calls, touched, anyRaise,
                   last, infoSeen, occLast, overwrote>>

\* Line 33
Dispatch ==
    /\ pc = "dispatch"
    /\ calls' = [calls EXCEPT !.Dispatch = @ + 1]
    /\ \E ok \in BOOLEAN :
          IF ok
          THEN pc' = "count" /\ UNCHANGED <<exc, anyRaise>>
          ELSE Raise("Dispatch")
    /\ UNCHANGED <<progVars, log, out, nInspect, touched, last, infoSeen, occLast, overwrote>>

\* Lines 35-38
DeviceInfosCount ==
    /\ pc = "count"
    /\ \/ /\ Raise("DeviceInfos")
          /\ UNCHANGED <<count, result, log, out>>
       \/ \E n \in DeviceCounts :
             /\ count' = n
             /\ UNCHANGED <<exc, anyRaise>>
             /\ IF NoDevice(n)
                THEN /\ log' = Append(log, LogEntry("PyAutoScan.ScannerInfo", "error",
                                                    <<"No scanner detected">>))
                     /\ out' = Append(out, <<"No scanner detected.">>)
                     /\ result' = NoneVal
                     /\ pc' = "returned"
                ELSE /\ pc' = "select"
                     /\ UNCHANGED <<result, log, out>>
    /\ UNCHANGED <<devIdx, scanner_details, supported_features, infoIdx, itemIdx,
                   propIdx, histVars>>

\* Line 40
SelectDevice ==
    /\ pc = "select"
    /\ LET i == FirstIndex(count)
       IN  \/ /\ i \in 0..count - 1
              /\ devIdx' = i
              /\ pc' = "connect"
              /\ UNCHANGED <<exc, anyRaise>>
           \/ /\ Raise("DeviceInfos[]")
              /\ UNCHANGED devIdx
    /\ UNCHANGED <<count, scanner_details, supported_features, result, infoIdx,
                   itemIdx, propIdx, log, out, histVars>>

\* Lines 41 and 44
Connect ==
    /\ pc = "connect"
    /\ calls' = [calls EXCEPT !.Connect = @ + 1]
    /\ touched' = touched \cup {devIdx}
    /\ \E ok \in BOOLEAN :
          IF ok
          THEN pc' = "info" /\ scanner_details' = <<>> /\ UNCHANGED <<exc, anyRaise>>
          ELSE Raise("Connect") /\ UNCHANGED scanner_details
    /\ UNCHANGED <<count, devIdx, supported_features, result, infoIdx, itemIdx,
                   propIdx, log, out, nInspect, last, infoSeen, occLast, overwrote>>

\* Lines 45-49: one iteration of the loop over device_info.Properties.  The
\* service yields a property called name; read number failIdx of line 47 raises
\* (0: none), and handlerOk says whether the handler's read of Name returns.
InfoNext ==
    /\ pc = "info"
    /\ infoIdx < MaxInfoProps
    /\ \E name \in InfoNames, failIdx \in 0..Len(InfoReads), handlerOk \in BOOLEAN :
          /\ failIdx = 0 => handlerOk
          /\ infoIdx' = infoIdx + 1
          /\ touched' = touched \cup {devIdx}
          /\ last' = [kind |-> "info", name |-> name,
                      fail |-> Category(FailedRead(InfoReads, failIdx)),
                      handlerOk |-> handlerOk,
                      retried |-> RetriedOps(InfoReads, failIdx, <<Read("Name", 49)>>)]
          /\ infoSeen' = infoSeen \cup {name}
          /\ IF failIdx = 0
             THEN /\ scanner_details' = DictSet(scanner_details, name, InfoValue(name))
                  /\ UNCHANGED <<pc, exc, anyRaise>>
             ELSE IF handlerOk
                  THEN /\ scanner_details' = DictSet(scanner_details, name, NotAvailable)
                       /\ anyRaise' = TRUE
                       /\ UNCHANGED <<pc, exc>>
                  ELSE /\ Raise("Name")
                       /\ UNCHANGED scanner_details
    /\ UNCHANGED <<count, devIdx, supported_features, result, itemIdx, propIdx,
                   log, out, nInspect, calls, occLast, overwrote>>

\* Line 45: the collection is exhausted; line 52.
InfoEnd ==
    /\ pc = "info"
    /\ pc' = "items"
    /\ supported_features' = <<>>
    /\ last' = NoLast
    /\ UNCHANGED <<count, devIdx, scanner_details, result, exc, infoIdx, itemIdx,
                   propIdx, log, out, nInspect, calls, touched, anyRaise, infoSeen, occLast, overwrote>>

\* Line 45: device_info.Properties, or stepping through it, raises.
InfoEnumFail ==
    /\ pc = "info"
    /\ Raise("Properties")
    /\ touched' = touched \cup {devIdx}
    /\ last' = NoLast
    /\ UNCHANGED <<progVars, log, out, nInspect, calls, infoSeen, occLast, overwrote>>

\* Line 53: device.Items yields the next item.
ItemNext ==
    /\ pc = "items"
    /\ itemIdx < MaxItems
    /\ itemIdx' = itemIdx + 1
    /\ propIdx' = 0
    /\ pc' = "props"
    /\ touched' = touched \cup {devIdx}
    /\ last' = NoLast
    /\ UNCHANGED <<count, devIdx, scanner_details, supported_features, result, exc,
                   infoIdx, log, out, nInspect, calls, anyRaise, infoSeen, occLast, overwrote>>

\* Line 53: no item is left.
ItemsEnd ==
    /\ pc = "items"
    /\ pc' = "success"
    /\ last' = NoLast
    /\ UNCHANGED <<progVars, exc, log, out, nInspect, calls, touched,
                   anyRaise, infoSeen, occLast, overwrote>>

\* Line 53: device.Items, or stepping through it, raises.
ItemsEnumFail ==
    /\ pc = "items"
    /\ Raise("Items")
    /\ touched' = touched \cup {devIdx}
    /\ last' = NoLast
    /\ UNCHANGED <<progVars, log, out, nInspect, calls, infoSeen, occLast, overwrote>>

\* Lines 54-72: one iteration of the loop over item.Properties.  The service
\* yields property p; read number failIdx of lines 56-70 raises (0: none).
PropNext ==
    /\ pc = "props"
    /\ propIdx < MaxItemProps
    /\ \E p \in ItemProps, handlerOk \in BOOLEAN :
          \E failIdx \in 0..Len(FeatureReads(p)) :
             LET failed == FailedRead(FeatureReads(p), failIdx)
             IN  /\ failIdx = 0 => handlerOk
                 /\ propIdx' = propIdx + 1
                 /\ touched' = touched \cup {devIdx}
                 /\ last' = [kind |-> "item", name |-> p.Name, fail |-> Category(failed),
                             handlerOk |-> handlerOk,
                             retried |-> RetriedOps(FeatureReads(p), failIdx,
                                                    <<Read("Name", 72)>>)]
                 /\ occLast' = [occLast EXCEPT ![p.Name] =
                                   [seen |-> TRUE, ok |-> failIdx = 0,
                                    p |-> IF failIdx = 0 THEN p ELSE NoProp]]
                 /\ overwrote' =
                       IF handlerOk
                       THEN overwrote \cup
                               ({<<EntryKind(supported_features, p.Name),
                                   IF failIdx = 0 THEN "dict" ELSE "str">>}
                                \cap {<<"dict", "str">>, <<"str", "dict">>})
                       ELSE overwrote
                 /\ IF failIdx = 0
                    THEN /\ supported_features' =
                               DictSet(supported_features, p.Name, BuildFeature(p))
                         /\ UNCHANGED <<pc, exc, anyRaise>>
                    ELSE IF handlerOk
                         THEN /\ supported_features' =
                                    DictSet(supported_features, p.Name, ErrorEntry(Message(failed)))
                              /\ anyRaise' = TRUE
                              /\ UNCHANGED <<pc, exc>>
                         ELSE /\ Raise("Name")
                              /\ UNCHANGED supported_features
    /\ UNCHANGED <<count, devIdx, scanner_details, result, infoIdx, itemIdx, log,
                   out, nInspect, calls, infoSeen>>

\* Line 54: the item has no further property.
PropsEnd ==
    /\ pc = "props"
    /\ pc' = "items"
    /\ last' = NoLast
    /\ UNCHANGED <<progVars, exc, log, out, nInspect, calls, touched,
                   anyRaise, infoSeen, occLast, overwrote>>

\* Line 54: item.Properties, or stepping through it, raises.
PropsEnumFail ==
    /\ pc = "props"
    /\ Raise("Item.Properties")
    /\ touched' = touched \cup {devIdx}
    /\ last' = NoLast
    /\ UNCHANGED <<progVars, log, out, nInspect, calls, infoSeen, occLast, overwrote>>

\* The function returns: its locals are gone.
DropLocals ==
    /\ devIdx' = -1
    /\ scanner_details' = <<>>
    /\ supported_features' = <<>>
    /\ infoIdx' = 0
    /\ itemIdx' = 0
    /\ propIdx' = 0

\* Lines 74-78
Success ==
    /\ pc = "success"
    /\ log' = Append(log, LogEntry("PyAutoScan.ScannerInfo", "info",
                                   <<"Scanner information retrieved successfully">>))
    /\ result' = SuccessResult(scanner_details, supported_features)
    /\ pc' = "returned"
    /\ DropLocals
    /\ UNCHANGED <<count, exc, out, histVars, anyRaise>>

\* Lines 80-83
Except ==
    /\ pc = "except"
    /\ IF Catches(exc)
       THEN /\ log' = Append(log, LogEntry("PyAutoScan.ScannerInfo", "error",
                                           <<"Failed to get scanner info: ", exc>>))
            /\ out' = Append(out, <<"Failed to get scanner info:", exc>>)
            /\ result' = ExceptResult(scanner_details, supported_features)
            /\ pc' = "returned"
       ELSE /\ pc' = "crashed"
            /\ UNCHANGED <<log, out, result>>
    /\ DropLocals
    /\ last' = NoLast
    /\ infoSeen' = {}
    /\ occLast' = [n \in ItemNames |-> NoOcc]
    /\ overwrote' = {}
    /\ UNCHANGED <<count, exc, nInspect, calls, touched, anyRaise>>

\* Lines 92-102
MainBranch ==
    /\ pc = "returned"
    /\ IF Truthy(result)
       THEN /\ log' = Append(log, LogEntry("PyAutoScan.Main", "info",
                                           <<"Scanner information displayed successfully">>))
            /\ out' = out \o <<DetailsHeader>> \o Lines(result.ScannerDetails)
                          \o <<FeaturesHeader>> \o Lines(result.SupportedFeatures)
       ELSE /\ log' = Append(log, LogEntry("PyAutoScan.Main", "error",
                                           <<"Failed to retrieve scanner information">>))
            /\ UNCHANGED out
    /\ pc' = "completed"
    /\ UNCHANGED <<progVars, exc, histVars, anyRaise>>

\* Line 104
MainDone ==
    /\ pc = "completed"
    /\ log' = Append(log, LogEntry("PyAutoScan.Main", "info",
                                   <<"PyAutoScan Scanner Information Utility completed">>))
    /\ pc' = "done"
    /\ UNCHANGED <<progVars, exc, out, histVars, anyRaise>>

Next ==
    \/ MainStart
    \/ CallInspect
    \/ Dispatch
    \/ DeviceInfosCount
    \/ SelectDevice
    \/ Connect
    \/ InfoNext
    \/ InfoEnd
    \/ InfoEnumFail
    \/ ItemNext
    \/ ItemsEnd
    \/ ItemsEnumFail
    \/ PropNext
    \/ PropsEnd
    \/ PropsEnumFail
    \/ Success
    \/ Except
    \/ MainBranch
    \/ MainDone

Spec == Init /\ [][Next]_vars

\* ------------------------------------------------------------ claims
Returned == pc \in {"returned", "completed", "done"}

Present == Returned /\ ~IsNone(result)

\* The lines get_scanner_info's own logger wrote.
InspectLog == SelectSeq(log, LAMBDA e : e.logger = "PyAutoScan.ScannerInfo")

UniqueKeys(d) == \A i, j \in DOMAIN d : d[i][1] = d[j][1] => i = j

BaseKeys == {"ID", "Value", "Type", "SubType"}

\* C1: when the device manager reports a count of zero, get_scanner_info
\* returns None, its logger writes exactly one line (the error "No scanner
\* detected") and exactly one line is printed; no device is indexed or
\* connected to and no property is read.
C1_NoDeviceAbsent ==
    (Returned /\ count = 0) =>
        /\ result = NoneVal
        /\ InspectLog = <<LogEntry("PyAutoScan.ScannerInfo", "error",
                                   <<"No scanner detected">>)>>
        /\ out = <<<<"No scanner detected.">>>>
        /\ exc = ""
        /\ calls.Connect = 0
        /\ touched = {}

C1_Witness == pc = "returned" /\ count = 0 /\ calls.Dispatch = 1

\* C2: an exception raised by service acquisition, device enumeration or
\* device connection (or by any other call that reaches the outer try) never
\* reaches the caller: the function logs one error naming it, prints it, and
\* returns None, never a partly filled result.
C2_FailureAbsent ==
    /\ pc # "crashed"
    /\ (Returned /\ exc # "") =>
          /\ result = NoneVal
          /\ InspectLog = <<LogEntry("PyAutoScan.ScannerInfo", "error",
                                     <<"Failed to get scanner info: ", exc>>)>>
          /\ out = <<<<"Failed to get scanner info:", exc>>>>

C2_Witness ==
    /\ pc = "returned"
    /\ exc = "Connect"
    /\ result = NoneVal

\* C3 (as claimed): right after the loop has handled a device-info property
\* whose Value read raised, the call goes on (no exception has left the
\* loop) and the entry under the property's name is "Not Available".
C3_ValueFailureContained ==
    (last.kind = "info" /\ last.fail = "value") =>
        /\ pc = "info"
        /\ exc = ""
        /\ HasKey(scanner_details, last.name)
        /\ Get(scanner_details, last.name) = NotAvailable

\* C4 (as claimed): right after the loop has handled an item property one of
\* whose reads of ID, value, type, sub-type or constraint metadata raised, the
\* entry under the property's name is a string starting "Error reading:" and
\* the enumeration goes on.
C4_FeatureFailureContained ==
    (last.kind = "item" /\ last.fail = "value") =>
        /\ pc = "props"
        /\ exc = ""
        /\ HasKey(supported_features, last.name)
        /\ IsStr(Get(supported_features, last.name))
        /\ Get(supported_features, last.name).str[1] = "Error reading: "

\* The feature dicts the program holds: the local while it is being filled,
\* the returned one afterwards.
Features ==
    IF pc \in {"props", "items", "success"} THEN supported_features
    ELSE IF Present THEN result.SupportedFeatures
    ELSE <<>>

ExpectedKeys(subType) ==
    BaseKeys \cup (IF subType = 1 THEN {"Min", "Max", "Step"}
                   ELSE IF subType = 2 THEN {"Values"}
                   ELSE {})

\* C5: every descriptor in SupportedFeatures has exactly the keys ID, Value,
\* Type, SubType, plus Min, Max, Step when its SubType is 1 (RANGE), plus Values
\* when its SubType is 2 (LIST), and nothing else; Min/Max/Step and Values
\* never appear together.
C5_DescriptorKeys ==
    \A i \in DOMAIN Features :
        LET f == Features[i][2]
        IN  ~IsStr(f) =>
               /\ BaseKeys \subseteq DOMAIN f
               /\ DOMAIN f = ExpectedKeys(f.SubType)
               /\ ~({"Min", "Values"} \subseteq DOMAIN f)

C5_Witness ==
    /\ Present
    /\ \E i, j \in DOMAIN result.SupportedFeatures :
          LET f == result.SupportedFeatures[i][2]
              g == result.SupportedFeatures[j][2]
          IN  /\ ~IsStr(f) /\ f.SubType = 1 /\ "Min" \in DOMAIN f
              /\ ~IsStr(g) /\ g.SubType = 2 /\ "Values" \in DOMAIN g

\* C6: when one or more devices are reported, only the first (index 0) is
\* ever selected, connected to or read from, however many others exist.
C6_FirstDeviceOnly ==
    count >= 1 =>
        /\ devIdx \in {-1, 0}
        /\ touched \subseteq {0}
        /\ calls.Connect > 0 => touched = {0}

C6_Witness ==
    /\ Present
    /\ count >= 2
    /\ touched = {0}
    /\ Len(result.ScannerDetails) > 0
    /\ Len(result.SupportedFeatures) > 0

\* C7: when a device exists and no call raises, the result is present;
\* ScannerDetails has exactly one entry per name of the device-info
\* properties enumerated, holding the value the service reports for it, and
\* SupportedFeatures has exactly one entry per name of the item properties
\* enumerated, a descriptor carrying the reported ID, Value, Type, SubType and
\* the constraint metadata of its sub-type.
C7_CleanRunResult ==
    (Returned /\ count >= 1 /\ ~anyRaise) =>
        /\ ~IsNone(result)
        /\ LET sd == result.ScannerDetails
               sf == result.SupportedFeatures
           IN  /\ UniqueKeys(sd)
               /\ Keys(sd) = infoSeen
               /\ \A i \in DOMAIN sd : sd[i][2] = InfoValue(sd[i][1])
               /\ UniqueKeys(sf)
               /\ Keys(sf) = {n \in ItemNames : occLast[n].seen}
               /\ \A i \in DOMAIN sf :
                     LET f == sf[i][2]
                         p == occLast[sf[i][1]].p
                     IN  /\ ~IsStr(f)
                         /\ f.ID = p.PropertyID
                         /\ f.Value = p.Value
                         /\ f.Type = p.Type
                         /\ f.SubType = p.SubType
                         /\ p.SubType = 1 =>
                               /\ f.Min = p.SubTypeMin
                               /\ f.Max = p.SubTypeMax
                               /\ f.Step = p.SubTypeStep
                         /\ p.SubType = 2 => f.Values = p.SubTypeValues

C7_Witness ==
    /\ pc = "returned"
    /\ ~anyRaise
    /\ result = [ScannerDetails |-> <<<<"Name", "HP Scanner">>>>,
                 SupportedFeatures |->
                    <<<<"Resolution",
                        [ID |-> 6147, Value |-> 300, Type |-> 5, SubType |-> 1,
                         Min |-> 100, Max |-> 1200, Step |-> 100]>>>>]

\* C8: a run makes exactly one inspection and always comes to its end.  With
\* a present result (also one whose two mappings are empty) it prints the
\* "Scanner Details" header, one line per ScannerDetails entry, the "Supported
\* Features" header and one line per SupportedFeatures entry, in that order;
\* with an absent result it prints neither header; the last log line is the
\* "completed" line in both cases.
C8_RunOutcome ==
    /\ pc # "crashed"
    /\ nInspect <= 1
    /\ pc # "done" => ENABLED Next
    /\ pc = "done" =>
          /\ nInspect = 1
          /\ log[Len(log)] = LogEntry("PyAutoScan.Main", "info",
                                      <<"PyAutoScan Scanner Information Utility completed">>)
          /\ IF IsNone(result)
             THEN \A i \in DOMAIN out : out[i] \notin {DetailsHeader, FeaturesHeader}
             ELSE LET sd == result.ScannerDetails
                      sf == result.SupportedFeatures
                  IN  /\ Len(out) = Len(sd) + Len(sf) + 2
                      /\ out[1] = DetailsHeader
                      /\ \A i \in DOMAIN sd :
                            out[1 + i] = <<"   ", sd[i][1], ": ", sd[i][2]>>
                      /\ out[Len(sd) + 2] = FeaturesHeader
                      /\ \A i \in DOMAIN sf :
                            out[Len(sd) + 2 + i] = <<"   ", sf[i][1], ": ", sf[i][2]>>

C8_Witness ==
    /\ pc = "done"
    /\ result = [ScannerDetails |-> <<>>, SupportedFeatures |-> <<>>]
    /\ out = <<DetailsHeader, FeaturesHeader>>

\* C9 (as claimed): Dispatch and Connect are each invoked at most once, and
\* no attribute is read again after a read of it has raised.
C9_NoRetry ==
    /\ calls.Dispatch <= 1
    /\ calls.Connect <= 1
    /\ last.retried = {}

\* C10: SupportedFeatures has one entry per distinct property name
\* enumerated over all items, and it is the one built from the last property
\* of that name: a descriptor of that property if its reads returned, an
\* "Error reading:" string if one raised, whatever entry was there before.
C10_LastOccurrenceWins ==
    (pc \in {"props", "items", "success"} \/ Present) =>
        /\ UniqueKeys(Features)
        /\ Keys(Features) = {n \in ItemNames : occLast[n].seen}
        /\ \A n \in Keys(Features) :
              LET f == Get(Features, n)
                  o == occLast[n]
              IN  IF o.ok
                  THEN /\ ~IsStr(f)
                       /\ f.ID = o.p.PropertyID
                       /\ f.Value = o.p.Value
                       /\ f.SubType = o.p.SubType
                  ELSE /\ IsStr(f)
                       /\ f.str[1] = "Error reading: "

C10_Witness ==
    /\ Present
    /\ Len(result.SupportedFeatures) = 2
    /\ overwrote = {<<"dict", "str">>, <<"str", "dict">>}
    /\ \E n, m \in ItemNames :
          /\ IsStr(Get(result.SupportedFeatures, n))
          /\ ~IsStr(Get(result.SupportedFeatures, m))

====
